---- MODULE Spec2Model ----
(***************************************************************************)
(* The event buffer of the Python analytics SDK                            *)
(* (packages/sdk-python/analytics_sdk/client.py, class Analytics):         *)
(* producer threads call identify / track / flush, a daemon thread calls   *)
(* flush after every sleep, the queue is guarded by a threading.Lock.      *)
(***************************************************************************)
EXTENDS Integers, Sequences, FiniteSets, TLC

\* ------------------------------------------------------------------ bounds
\* number of track calls explored
MaxEvents == 2
\* batch_size is drawn from 1..MaxBatch at construction
MaxBatch == 3
\* number of delivery attempts that may fail (the channel succeeds afterwards)
MaxFailures == 2
\* number of flush calls of the application and the timer that are explored
\* beyond those that return at the emptiness test
MaxSends == 2

\* ------------------------------------------------------------------ inputs
Producers == {"p1", "p2"}
Timer == "timer"
Threads == Producers \cup {Timer}

None == "None"
Names == {"", "signup"}
UserIds == {"u1"}
SessionIds == {"session-1", "session-2"}

VARIABLES
    batch_size,   \* self.batch_size
    queue,        \* self.queue
    user_id,      \* self.user_id
    session_id,   \* self.session_id
    lock,         \* self.lock: None when free, else the owning thread
    pc,           \* position of every thread in the code
    event,        \* local `event` of track, as a sequence of 0 or 1 events
    events,       \* local `events` of flush
    caller,       \* who called the flush a thread is in: track, flush, timer
    clock,        \* number of time.time() reads so far
    sent,         \* the requests.post calls made so far, with their outcome
    appended      \* history: the timestamps of the events in append order

vars == <<batch_size, queue, user_id, session_id, lock, pc, event, events,
          caller, clock, sent, appended>>

\* ----------------------------------------------------------------- helpers
\* `properties or {}`: a missing or empty dict becomes the empty dict
OrEmpty(properties) ==
    IF properties = None \/ properties = "{}" THEN "{}" ELSE properties

\* every event gets a session id of its own
MakeEvent_FreshSession(event_name, properties) ==
    [eventName  |-> event_name,
     properties |-> OrEmpty(properties),
     userId     |-> user_id,
     sessionId  |-> IF clock = 0 THEN session_id ELSE "session-0",
     timestamp  |-> clock + 1]

\* the dict built by track
MakeEvent(event_name, properties) ==
    [eventName  |-> event_name,
     properties |-> OrEmpty(properties),
     userId     |-> user_id,
     sessionId  |-> session_id,
     timestamp  |-> clock + 1]

\* the emptiness test is missing
NotQueue_Never(q) == FALSE

\* `not self.queue`, line 67
NotQueue(q) == q = <<>>

\* `len(self.queue) >= self.batch_size`, line 62
Full(q) == Len(q) >= batch_size

\* the failed batch replaces the buffer
Prepend_Overwrite(batch, q) == batch

\* the failed batch is not put back
Prepend_Drop(batch, q) == q

\* the failed batch is put back behind the newer events
Prepend_Behind(batch, q) == q \o batch

\* `events + self.queue`, line 89
Prepend(batch, q) == batch \o q

\* where a thread is between two calls
Rest(t) == IF t = Timer THEN "sleep" ELSE "idle"

Failures == Cardinality({i \in 1..Len(sent) : ~sent[i].ok})

\* the flush calls of the application and the timer that are in progress
Flushing == {t \in Threads : caller[t] \in {"flush", "timer"}}

\* the exploration stops starting flush calls at MaxSends
Horizon == Len(sent) + Cardinality(Flushing) >= MaxSends

\* ------------------------------------------------------------------- Init
Init ==
    /\ batch_size \in 1..MaxBatch
    /\ queue = <<>>
    /\ user_id = None
    /\ session_id \in SessionIds
    /\ lock = None
    /\ pc = [t \in Threads |-> Rest(t)]
    /\ event = [t \in Threads |-> <<>>]
    /\ events = [t \in Threads |-> <<>>]
    /\ caller = [t \in Threads |-> None]
    /\ clock = 0
    /\ sent = <<>>
    /\ appended = <<>>

\* ---------------------------------------------------------------- actions
\* identify rewrites the user id of the buffered events
Identify_Retroactive(t, u) ==
    /\ pc[t] = "idle"
    /\ user_id' = u
    /\ queue' = [i \in 1..Len(queue) |-> [queue[i] EXCEPT !.userId = u]]
    /\ UNCHANGED <<batch_size, session_id, lock, pc, event, events,
                   caller, clock, sent, appended>>

\* identify(user_id, traits): line 41
Identify(t, u) ==
    /\ pc[t] = "idle"
    /\ user_id' = u
    /\ UNCHANGED <<batch_size, queue, session_id, lock, pc, event, events,
                   caller, clock, sent, appended>>

\* shutdown(): class Analytics (lines 9-107) defines no such method, so the
\* call raises AttributeError in the calling thread and touches nothing of
\* the client; the model does not follow that thread any further
Shutdown(t) ==
    /\ pc[t] = "idle"
    /\ pc' = [pc EXCEPT ![t] = "raised"]
    /\ UNCHANGED <<batch_size, queue, user_id, session_id, lock, event, events,
                   caller, clock, sent, appended>>

\* track, lines 51-57: build the event, then wait for the lock
Track(t, event_name, properties) ==
    /\ pc[t] = "idle"
    /\ clock < MaxEvents
    /\ event' = [event EXCEPT ![t] = <<MakeEvent(event_name, properties)>>]
    /\ clock' = clock + 1
    /\ pc' = [pc EXCEPT ![t] = "t_lock"]
    /\ UNCHANGED <<batch_size, queue, user_id, session_id, lock, events,
                   caller, sent, appended>>

\* track appends without taking the lock
TrackAcquire_NoLock(t) ==
    /\ pc[t] = "t_lock"
    /\ pc' = [pc EXCEPT ![t] = "t_append"]
    /\ UNCHANGED <<batch_size, queue, user_id, session_id, lock, event, events,
                   caller, clock, sent, appended>>

\* track, line 59: with self.lock
TrackAcquire(t) ==
    /\ pc[t] = "t_lock"
    /\ lock = None
    /\ lock' = t
    /\ pc' = [pc EXCEPT ![t] = "t_append"]
    /\ UNCHANGED <<batch_size, queue, user_id, session_id, event, events,
                   caller, clock, sent, appended>>

\* track, lines 60-63: append, then either call flush with the lock still
\* held or leave the with block and return
TrackAppend(t) ==
    /\ pc[t] = "t_append"
    /\ queue' = queue \o event[t]
    /\ event' = [event EXCEPT ![t] = <<>>]
    /\ IF Full(queue')
       THEN /\ pc' = [pc EXCEPT ![t] = "f_check"]
            /\ caller' = [caller EXCEPT ![t] = "track"]
            /\ UNCHANGED lock
       ELSE /\ pc' = [pc EXCEPT ![t] = "idle"]
            /\ lock' = None
            /\ UNCHANGED caller
    /\ appended' = appended \o [i \in 1..Len(event[t]) |-> event[t][i].timestamp]
    /\ UNCHANGED <<batch_size, user_id, session_id, events, clock, sent>>

\* an application thread calls flush()
FlushCall(t) ==
    /\ pc[t] = "idle"
    /\ ~Horizon
    /\ pc' = [pc EXCEPT ![t] = "f_check"]
    /\ caller' = [caller EXCEPT ![t] = "flush"]
    /\ UNCHANGED <<batch_size, queue, user_id, session_id, lock, event,
                   events, clock, sent, appended>>

\* flush_periodically, lines 95-97: the sleep ends and flush is called
TimerWake ==
    /\ pc[Timer] = "sleep"
    /\ ~Horizon
    /\ pc' = [pc EXCEPT ![Timer] = "f_check"]
    /\ caller' = [caller EXCEPT ![Timer] = "timer"]
    /\ UNCHANGED <<batch_size, queue, user_id, session_id, lock, event,
                   events, clock, sent, appended>>

\* the return of flush to its caller: the timer loop sleeps again, flush()
\* of the application returns, track leaves its with block and returns
Return(t) ==
    /\ pc' = [pc EXCEPT ![t] = Rest(t)]
    /\ events' = [events EXCEPT ![t] = <<>>]
    /\ lock' = IF caller[t] = "track" THEN None ELSE lock
    /\ caller' = [caller EXCEPT ![t] = None]

\* flush, lines 67-68: the emptiness test, made without the lock
FlushCheck(t) ==
    /\ pc[t] = "f_check"
    /\ IF NotQueue(queue)
       THEN Return(t)
       ELSE /\ pc' = [pc EXCEPT ![t] = "f_lock"]
            /\ UNCHANGED <<lock, events, caller>>
    /\ UNCHANGED <<batch_size, queue, user_id, session_id, event, clock,
                   sent, appended>>

\* flush, line 70: with self.lock (threading.Lock is not reentrant)
FlushAcquire(t) ==
    /\ pc[t] = "f_lock"
    /\ lock = None
    /\ lock' = t
    /\ pc' = [pc EXCEPT ![t] = "f_drain"]
    /\ UNCHANGED <<batch_size, queue, user_id, session_id, event, events,
                   caller, clock, sent, appended>>

\* the post is made inside the with block
FlushDrain_KeepLock(t) ==
    /\ pc[t] = "f_drain"
    /\ events' = [events EXCEPT ![t] = queue]
    /\ queue' = <<>>
    /\ pc' = [pc EXCEPT ![t] = "f_send"]
    /\ UNCHANGED <<batch_size, user_id, session_id, lock, event, caller,
                   clock, sent, appended>>

\* the drain takes the oldest event only
FlushDrain_First(t) ==
    /\ pc[t] = "f_drain"
    /\ events' = [events EXCEPT ![t] = SubSeq(queue, 1, 1)]
    /\ queue' = SubSeq(queue, 2, Len(queue))
    /\ lock' = None
    /\ pc' = [pc EXCEPT ![t] = "f_send"]
    /\ UNCHANGED <<batch_size, user_id, session_id, event, caller, clock,
                   sent, appended>>

\* flush, lines 71-72: copy and clear, then leave the with block
FlushDrain(t) ==
    /\ pc[t] = "f_drain"
    /\ events' = [events EXCEPT ![t] = queue]
    /\ queue' = <<>>
    /\ lock' = None
    /\ pc' = [pc EXCEPT ![t] = "f_send"]
    /\ UNCHANGED <<batch_size, user_id, session_id, event, caller, clock,
                   sent, appended>>

\* flush, lines 74-84: the post succeeds and flush returns
DeliverOk(t) ==
    /\ pc[t] = "f_send"
    /\ sent' = Append(sent, [events |-> events[t], ok |-> TRUE])
    /\ Return(t)
    /\ UNCHANGED <<batch_size, queue, user_id, session_id, event, clock,
                   appended>>

\* the exception of the post is not caught and leaves flush
DeliverFail_Raise(t) ==
    /\ pc[t] = "f_send"
    /\ Failures < MaxFailures
    /\ sent' = Append(sent, [events |-> events[t], ok |-> FALSE])
    /\ Return(t)
    /\ UNCHANGED <<batch_size, queue, user_id, session_id, event, clock,
                   appended>>

\* flush, lines 74-86: the post raises and the exception is caught
DeliverFail(t) ==
    /\ pc[t] = "f_send"
    /\ Failures < MaxFailures
    /\ sent' = Append(sent, [events |-> events[t], ok |-> FALSE])
    /\ pc' = [pc EXCEPT ![t] = "f_relock"]
    /\ UNCHANGED <<batch_size, queue, user_id, session_id, lock, event,
                   events, caller, clock, appended>>

\* flush, line 88: with self.lock in the except block
RequeueAcquire(t) ==
    /\ pc[t] = "f_relock"
    /\ lock = None
    /\ lock' = t
    /\ pc' = [pc EXCEPT ![t] = "f_requeue"]
    /\ UNCHANGED <<batch_size, queue, user_id, session_id, event, events,
                   caller, clock, sent, appended>>

\* flush, line 89: self.queue = events + self.queue, then flush returns
Requeue(t) ==
    /\ pc[t] = "f_requeue"
    /\ queue' = Prepend(events[t], queue)
    /\ pc' = [pc EXCEPT ![t] = Rest(t)]
    /\ events' = [events EXCEPT ![t] = <<>>]
    /\ lock' = None
    /\ caller' = [caller EXCEPT ![t] = None]
    /\ UNCHANGED <<batch_size, user_id, session_id, event, clock, sent,
                   appended>>

\* one step of thread t inside a call it has started
Step(t) ==
    \/ TrackAcquire(t)
    \/ TrackAppend(t)
    \/ FlushCheck(t)
    \/ FlushAcquire(t)
    \/ FlushDrain(t)
    \/ DeliverOk(t)
    \/ DeliverFail(t)
    \/ RequeueAcquire(t)
    \/ Requeue(t)

Next ==
    \/ \E t \in Producers, u \in UserIds : Identify(t, u)
    \/ \E t \in Producers, n \in Names : Track(t, n, None)
    \/ \E t \in Producers : FlushCall(t)
    \/ \E t \in Producers : Shutdown(t)
    \/ TimerWake
    \/ \E t \in Threads : TrackAcquire(t)
    \/ \E t \in Threads : TrackAppend(t)
    \/ \E t \in Threads : FlushCheck(t)
    \/ \E t \in Threads : FlushAcquire(t)
    \/ \E t \in Threads : FlushDrain(t)
    \/ \E t \in Threads : DeliverOk(t)
    \/ \E t \in Threads : DeliverFail(t)
    \/ \E t \in Threads : RequeueAcquire(t)
    \/ \E t \in Threads : Requeue(t)

Spec == Init /\ [][Next]_vars

\* every thread that is inside a call keeps running
FairSpec == Spec /\ \A t \in Threads : WF_vars(Step(t))

\* ... and the sleep of the timer thread ends
TimerFairSpec == FairSpec /\ WF_vars(TimerWake)

\* ------------------------------------------------------- derived notions
\* thread t is inside a track call
InTrack(t) == pc[t] \in {"t_lock", "t_append"} \/ caller[t] = "track"

\* the timestamps of the events of a sequence, in order
Stamps(q) == [i \in 1..Len(q) |-> q[i].timestamp]

\* the positions at which the event stamped ts occurs
InQueue(ts) == {i \in 1..Len(queue) : queue[i].timestamp = ts}
InBatch(ts) ==
    {<<t, i>> \in Threads \X (1..MaxEvents + 1) :
        i <= Len(events[t]) /\ events[t][i].timestamp = ts}
InDelivered(ts) ==
    {<<j, i>> \in (1..Len(sent)) \X (1..MaxEvents + 1) :
        sent[j].ok /\ i <= Len(sent[j].events)
                   /\ sent[j].events[i].timestamp = ts}

\* the events that track has appended: all those built, except the ones a
\* track call still holds in its local variable
AppendedStamps == {ts \in 1..clock : \A t \in Threads : Stamps(event[t]) # <<ts>>}

RECURSIVE SumLen(_, _)
SumLen(f, S) ==
    IF S = {} THEN 0
    ELSE LET x == CHOOSE y \in S : TRUE IN Len(f[x]) + SumLen(f, S \ {x})

NumInFlight == SumLen(events, Threads)
NumDelivered ==
    SumLen([j \in 1..Len(sent) |-> IF sent[j].ok THEN sent[j].events ELSE <<>>],
           1..Len(sent))

\* ------------------------------------------------------------------ claims
\* C1: every call to track eventually returns (every delivery attempt
\* terminates: a thread in flush always takes its next step).
C1_TrackReturns == \A t \in Producers : InTrack(t) ~> ~InTrack(t)

\* C2: no event is lost or duplicated: every appended event is in exactly one
\* place (the buffer, one batch in flight, one delivered batch), an event not
\* appended is in none, and delivered + in flight + buffered = appended.
C2_NoLossNoDup ==
    /\ \A ts \in 1..MaxEvents + 1 :
          Cardinality(InQueue(ts)) + Cardinality(InBatch(ts))
            + Cardinality(InDelivered(ts))
          = IF ts \in AppendedStamps THEN 1 ELSE 0
    /\ NumDelivered + NumInFlight + Len(queue) = Cardinality(AppendedStamps)

\* C2 witness: after a failed attempt, one event is delivered while another
\* one waits in the buffer and a third place, a batch in flight, is in use
C2_Witness ==
    /\ \E j \in 1..Len(sent) : ~sent[j].ok /\ sent[j].events # <<>>
    /\ NumDelivered >= 1
    /\ Len(queue) + NumInFlight >= 1

\* some thread other than p is inside a call
Others(p) == \E t \in Threads \ {p} : pc[t] # Rest(t)

\* nothing was sent and no batch is in flight: every event built so far is
\* in the buffer or in the local variable of a track call
NothingFlushed == sent = <<>> /\ NumInFlight = 0

\* the buffer holds every event built so far, in the order of the track calls
AllInCallOrder == Stamps(queue) = [i \in 1..clock |-> i]

\* q1 is an initial segment of q2
IsPrefix(q1, q2) == Len(q1) <= Len(q2) /\ SubSeq(q2, 1, Len(q1)) = q1

\* C3: one producer, a channel that always succeeds, no timer flush: the track
\* call that makes the buffer reach batch_size flushes inside the call, so
\* after k returned track calls the buffer holds k mod batch_size events.
\* (A state in which the buffer holds all events in call order and only p is
\* inside a call is a state one producer reaches alone; the run leaves the
\* scenario as soon as another thread starts a call, a delivery fails or p
\* calls flush itself.)
C3_ThresholdFlush ==
    \A p \in Producers :
        (~Others(p) /\ NothingFlushed /\ AllInCallOrder /\ caller[p] = "track")
          ~> \/ Others(p) \/ Failures > 0 \/ caller[p] = "flush"
             \/ ~InTrack(p) /\ Len(queue) = clock % batch_size

\* C4: N track calls of one producer, batch_size >= N, a channel that always
\* succeeds: once flush runs on the N events (the flush of the N-th track call
\* or a flush() call of the producer), exactly one delivery attempt is made,
\* with the N events in the order of their track calls.
C4_OneBatchInOrder ==
    \A p \in Producers :
        (/\ ~Others(p) /\ NothingFlushed
         /\ clock >= 1 /\ clock <= batch_size /\ AllInCallOrder
         /\ pc[p] \in {"f_check", "f_lock"})
          ~> \/ Others(p) \/ Failures > 0
             \/ /\ Len(sent) = 1 /\ sent[1].ok
                /\ Stamps(sent[1].events) = [i \in 1..clock |-> i]

\* C5: batch_size events are tracked and the channel fails on its first
\* invocation: the channel is invoked a second time, with a batch that starts
\* with the events of the first invocation in the same order.
C5_RetrySameBatch ==
    (clock = batch_size /\ Len(queue) = batch_size /\ NothingFlushed)
      ~> \/ Horizon
         \/ /\ Len(sent) >= 1
            /\ \/ sent[1].ok
               \/ Len(sent) >= 2 /\ IsPrefix(sent[1].events, sent[2].events)

\* C6: with a fair timer thread and a channel that eventually succeeds, every
\* appended event is eventually in a successfully delivered batch (as long as
\* flush calls are still being explored).
C6_EventuallyDelivered ==
    \A ts \in 1..MaxEvents :
        (ts \in AppendedStamps) ~> (InDelivered(ts) # {} \/ Horizon)

\* C7: no thread holds the lock forever, and a thread that waits for the lock
\* eventually acquires it.
C7_LockReleased ==
    \A t \in Threads :
        /\ (lock = t) ~> (lock # t)
        /\ (pc[t] \in {"t_lock", "f_lock", "f_relock"}) ~> (lock = t)

\* C8: a thread that is inside a delivery attempt does not own the lock.
C8_SendWithoutLock == \A t \in Threads : pc[t] = "f_send" => lock # t

\* C8 witness: the timer thread and a flush() call of the application are
\* both inside a delivery attempt while a producer holds the lock to append
C8_Witness ==
    /\ pc[Timer] = "f_send"
    /\ \E p \in Producers : pc[p] = "f_send" /\ caller[p] = "flush"
    /\ \E p \in Producers : pc[p] = "t_append" /\ lock = p

\* C9: a flush that finds the buffer empty returns at once: it makes no
\* delivery attempt and changes neither the buffer nor the user id, the
\* session id, the lock or any batch.
C9_EmptyFlushNoop ==
    [][\A t \in Threads :
          (pc[t] = "f_check" /\ queue = <<>> /\ pc'[t] # pc[t])
            => /\ pc'[t] = Rest(t)
               /\ UNCHANGED <<queue, user_id, session_id, sent, lock, events,
                              batch_size>>]_vars

\* C9 witness: flush() was called on an empty buffer, after an identify and
\* after earlier events were delivered
C9_Witness ==
    \E p \in Producers :
        /\ pc[p] = "f_check" /\ caller[p] = "flush"
        /\ queue = <<>> /\ user_id # None /\ NumDelivered >= 1

\* C10: round trip: the drain moves the whole buffer into the batch, the batch
\* is not changed while it is in flight, and the requeue after a failed
\* delivery, when nothing was added to the buffer since the drain, makes the
\* buffer equal to the batch: the same events in the same order.
C10_RoundTrip ==
    [][\A t \in Threads :
          /\ (pc[t] = "f_drain" /\ pc'[t] # pc[t])
               => (events'[t] = queue /\ queue' = <<>>)
          /\ (pc[t] \in {"f_send", "f_relock"} /\ pc'[t] # Rest(t))
               => events'[t] = events[t]
          /\ (pc[t] = "f_requeue" /\ pc'[t] # pc[t] /\ queue = <<>>)
               => queue' = events[t]]_vars

\* C10 witness: the last delivery attempt failed with a batch of two events,
\* every call has returned and the buffer holds exactly that batch
C10_Witness ==
    /\ sent # <<>>
    /\ ~sent[Len(sent)].ok
    /\ Len(sent[Len(sent)].events) >= 2
    /\ queue = sent[Len(sent)].events
    /\ \A t \in Threads : pc[t] = Rest(t)
\* the rank of the event stamped ts in the order of the appends
Idx(ts) == CHOOSE i \in 1..Len(appended) : appended[i] = ts

\* the events of q are in the order in which they were appended
InAppendOrder(q) ==
    \A i, j \in 1..Len(q) : i < j => Idx(q[i].timestamp) < Idx(q[j].timestamp)

\* the attempts that failed / succeeded
FailedAttempts == {j \in 1..Len(sent) : ~sent[j].ok}
OkAttempts == {j \in 1..Len(sent) : sent[j].ok}

\* C11: the requeue after a failed delivery puts the whole failed batch, in
\* its own order, in front of the buffer as it is just before the requeue;
\* the batch put back is one the channel has refused.
C11_RequeueAtHead ==
    [][\A t \in Threads :
          (pc[t] = "f_requeue" /\ pc'[t] # pc[t])
            => /\ queue' = events[t] \o queue
               /\ \E j \in FailedAttempts : sent[j].events = events[t]]_vars

\* C11 witness: every call has returned, the buffer is a failed batch
\* followed by an event that was appended while that batch was in flight
C11_Witness ==
    /\ \A t \in Threads : pc[t] = Rest(t)
    /\ \E j \in FailedAttempts :
          /\ sent[j].events # <<>>
          /\ IsPrefix(sent[j].events, queue)
          /\ Len(queue) > Len(sent[j].events)

\* C12: in every reachable state the events of the buffer, of every batch in
\* flight and of every batch handed to the channel are in append order.
C12_AppendOrder ==
    /\ InAppendOrder(queue)
    /\ \A t \in Threads : InAppendOrder(events[t])
    /\ \A j \in 1..Len(sent) : InAppendOrder(sent[j].events)

\* C13: an event of a failed batch is successfully delivered no later than
\* any event appended after it.  (An event appended after b and before the
\* first drain of b shares every batch with b; an event appended later was
\* appended after the drain of a failed batch of b: the statement is the
\* claim, event by event.)
C13_RetryPriority ==
    \A j \in FailedAttempts : \A k \in OkAttempts :
        \A x \in 1..Len(sent[j].events) : \A y \in 1..Len(sent[k].events) :
            Idx(sent[k].events[y].timestamp) > Idx(sent[j].events[x].timestamp)
              => \E m \in OkAttempts :
                    /\ m <= k
                    /\ \E z \in 1..Len(sent[m].events) :
                          sent[m].events[z] = sent[j].events[x]
\* the pc values at which a thread mutates the buffer
Mutating == {"t_append", "f_drain", "f_requeue"}

\* every event the client holds: buffered, local to a call, or sent
Held ==
    {queue[i] : i \in 1..Len(queue)}
      \cup UNION {{event[t][i] : i \in 1..Len(event[t])} : t \in Threads}
      \cup UNION {{events[t][i] : i \in 1..Len(events[t])} : t \in Threads}
      \cup UNION {{sent[j].events[i] : i \in 1..Len(sent[j].events)} :
                     j \in 1..Len(sent)}

\* C14: a failed delivery is absorbed by flush: the thread goes on to the
\* requeue with its batch intact, it leaves flush only through the requeue,
\* and when it has returned the whole failed batch is in the buffer.
C14_FailureAbsorbed ==
    [][\A t \in Threads :
          /\ (pc[t] = "f_send" /\ pc'[t] # pc[t] /\ ~sent'[Len(sent')].ok)
               => (pc'[t] = "f_relock" /\ events'[t] = events[t])
          /\ (pc[t] \in {"f_relock", "f_requeue"}
                /\ pc'[t] \notin {"f_relock", "f_requeue"})
               => /\ pc[t] = "f_requeue" /\ pc'[t] = Rest(t)
                  /\ IsPrefix(events[t], queue')]_vars

\* C14 witness: the only delivery attempt so far failed, its flush has
\* returned and its batch is the buffer again
C14_Witness ==
    /\ Len(sent) = 1 /\ ~sent[1].ok /\ sent[1].events # <<>>
    /\ queue = sent[1].events
    /\ \A t \in Threads : pc[t] \notin {"f_send", "f_relock", "f_requeue"}

\* C15: no event with an empty name ever enters the buffer or a batch.
C15_NoEmptyName ==
    /\ \A i \in 1..Len(queue) : queue[i].eventName # ""
    /\ \A t \in Threads : \A i \in 1..Len(events[t]) :
          events[t][i].eventName # ""

\* C16: once shutdown() has been called, the timer thread starts no further
\* flush.
C16_ShutdownStopsTimer ==
    [][(\E p \in Producers : pc[p] = "raised")
          => ~(pc[Timer] = "sleep" /\ pc'[Timer] = "f_check")]_vars

\* C17: identify changes the current user id and nothing else; an event
\* carries the user id that was current when track built it, which is null
\* as long as no identify was made.
C17_IdentifyFrame ==
    /\ [](user_id = None => \A e \in Held : e.userId = None)
    /\ [][/\ user_id' # user_id
             => UNCHANGED <<batch_size, queue, session_id, lock, pc, event,
                            events, caller, clock, sent, appended>>
          /\ \A t \in Threads :
                (event[t] = <<>> /\ event'[t] # <<>>)
                  => event'[t][1].userId = user_id
          /\ \A i \in 1..Len(queue) :
                i <= Len(queue') /\ queue'[i].timestamp = queue[i].timestamp
                  => queue'[i].userId = queue[i].userId]_vars

\* C17 witness: the buffer holds an event tracked before identify, with a
\* null user id, followed by an event tracked after it, with the new user id
C17_Witness ==
    /\ user_id \in UserIds
    /\ Len(queue) = 2
    /\ queue[1].userId = None
    /\ queue[2].userId = user_id

\* C18: a timer flush that finds the buffer non-empty drains it and attempts
\* the delivery, whatever the number of buffered events.
C18_TimerFlushDelivers == (pc[Timer] = "f_lock") ~> (pc[Timer] = "f_send")

\* C19: the buffer changes only by the append of one event, by a drain that
\* moves the whole buffer into one batch, or by a requeue that puts a whole
\* batch back; a drained batch is handed to the channel exactly once as it
\* is, and is then dropped as a whole (success) or kept as a whole for the
\* requeue (failure).
C19_AllOrNothing ==
    [][/\ queue' # queue
             => \/ /\ Len(queue') = Len(queue) + 1
                   /\ SubSeq(queue', 1, Len(queue)) = queue
                   /\ \E t \in Threads : pc[t] = "t_append" /\ pc'[t] # pc[t]
                \/ \E t \in Threads :
                      /\ pc[t] = "f_drain" /\ pc'[t] = "f_send"
                      /\ queue' = <<>> /\ events'[t] = queue
                \/ \E t \in Threads :
                      /\ pc[t] = "f_requeue" /\ pc'[t] # pc[t]
                      /\ queue' = events[t] \o queue /\ events'[t] = <<>>
       /\ \A t \in Threads :
             (pc[t] = "f_send" /\ pc'[t] # pc[t])
               => /\ Len(sent') = Len(sent) + 1
                  /\ SubSeq(sent', 1, Len(sent)) = sent
                  /\ sent'[Len(sent')].events = events[t]
                  /\ queue' = queue
                  /\ events'[t] = IF sent'[Len(sent')].ok THEN <<>> ELSE events[t]
       /\ sent' # sent
             => \E t \in Threads : pc[t] = "f_send" /\ pc'[t] # pc[t]]_vars

\* C19 witness: a batch of two events was drained at once and delivered, and
\* nothing is left in the buffer or in flight
C19_Witness ==
    /\ \E j \in OkAttempts : Len(sent[j].events) = 2
    /\ queue = <<>>
    /\ NumInFlight = 0

\* C20: a thread that is at an append, a drain or a requeue owns the lock, so
\* at most one thread is at such a step, and the buffer changes only in a
\* step of the thread that owns the lock.
C20_MutationUnderLock ==
    /\ [](/\ \A t \in Threads : pc[t] \in Mutating => lock = t
          /\ Cardinality({t \in Threads : pc[t] \in Mutating}) <= 1)
    /\ [][queue' # queue
             => \E t \in Threads :
                   lock = t /\ pc[t] \in Mutating /\ pc'[t] # pc[t]]_vars

\* C20 witness: one thread is at the requeue with the lock while a track call
\* and another flush wait for it
C20_Witness ==
    \E a, b, c \in Threads :
        /\ pc[a] = "f_requeue" /\ lock = a
        /\ pc[b] = "t_lock"
        /\ pc[c] \in {"f_lock", "f_relock"}

C22_NoEmptyBatch == \A j \in 1..Len(sent) : sent[j].events # <<>>
====
